---- MODULE Spec2Model ----
(***************************************************************************)
(* State-machine model of src/index.tsx: the App's hand-tracking loop      *)
(* (mode hysteresis, pinch, pointer) with the cleanup of its effect, the   *)
(* Polaroids focus/zoom selector and photo layout, the Ornaments           *)
(* spring-damper integrator with pointer repulsion and rotation, and the   *)
(* blend progress of the Foliage.                                          *)
(*                                                                         *)
(* Units.  Landmark distances are in thousandths of the normalised image   *)
(* size (0.25 is 250).  Hand coordinates are in halves (0, 1, 2 stand for  *)
(* 0, 0.5, 1).  Projected frame positions are in whole NDC units.  World   *)
(* coordinates and velocities are fixed-point with Scale units per world   *)
(* unit; frame deltas are in hundredths of a second.  Rotations are in     *)
(* thousandths of a radian and uProgress in ten-thousandths.               *)
(***************************************************************************)
EXTENDS Integers, Sequences, FiniteSets, TLC

VARIABLES
  mode,           \* App: useState 'chaos' | 'formed'
  handPosition,   \* App: useState {x, y} | null
  isPinching,     \* App: useState boolean
  visionPc,       \* App effect: position of runVision / the prediction loop
  videoIsNew,     \* App effect: video.currentTime !== lastVideoTime
  avgDist,        \* predictWebcam: avgDist of the last processed detection
  customImages,   \* App: useState string[], as the number of images it holds
  cleanedUp,      \* App effect: the cleanup function has run
  srcObject,      \* App effect: video.srcObject, the camera stream
  focusedIdRef,   \* Polaroids: focusedIdRef.current
  childNdc,       \* Polaroids.useFrame: tempV of every child, as last projected
  frame,          \* Polaroids.useFrame: the locals of the last frame callback
  photos,         \* Polaroids: the photos array of the useMemo
  ornaments,      \* Ornaments: the OrnamentData list being integrated
  pointer,        \* r3f state.pointer (mouse, NDC)
  ornTick,        \* Ornaments.useFrame: the locals of the last frame callback
  dummy,          \* Ornaments: dummy.rotation, the Object3D of the current render
  instanceColor,  \* Ornaments: lightRef.current.instanceColor
  fault,          \* Ornaments.useFrame: a callback has thrown
  uProgress,      \* Foliage: materialRef.current.uProgress
  foliageTick,    \* Foliage.useFrame: the locals of the last frame callback
  config          \* CONFIG: ornamentCount, particleCount and dimensions.radius

appVars == <<mode, handPosition, isPinching, visionPc, videoIsNew, avgDist,
            customImages, cleanedUp, srcObject>>
polaroidVars == <<focusedIdRef, childNdc, frame, photos>>
ornamentVars == <<ornaments, pointer, ornTick, dummy, instanceColor, fault>>
foliageVars == <<uProgress, foliageTick>>
vars == <<mode, handPosition, isPinching, visionPc, videoIsNew, avgDist,
          customImages, cleanedUp, srcObject,
          focusedIdRef, childNdc, frame, photos,
          ornaments, pointer, ornTick, dummy, instanceColor, fault,
          uProgress, foliageTick, config>>

\* null, for focusedIdRef.current and nextFocusedId
NullId == -1
\* null, for handPosition
NullHand == [x |-> -1, y |-> -1]
\* no detection with landmarks has been processed: avgDist was not computed
NoSample == -1

(***************************************************************************)
(* Bounds of the model                                                     *)
(***************************************************************************)
\* number of image frames in the modelled population (the program builds 30)
NumPhotos == 3
\* number of Ornaments frame callbacks followed when the frame deltas vary
MaxOrnTicks == 2
\* number of frames of the render loop followed when all the components run
MaxSceneFrames == 1
\* number of images the user adds in the photo manager
MaxImages == 1
\* number of Ornaments frame callbacks followed when the render loop stalls
MaxStallTicks == 6
\* the run is followed while the ornament is within this many times its
\* initial distance of the destination
StallBoundFactor == 100
\* number of Foliage frame callbacks followed
MaxFoliageTicks == 3
\* number of Ornaments frame callbacks followed at a constant frame delta
MaxSteadyTicks == 600

(***************************************************************************)
(* App.predictWebcam                                                       *)
(***************************************************************************)
\* avgDist > 0.25 sets chaos
HighThreshold == 250
\* avgDist < 0.15 sets formed
LowThreshold == 150
\* pinchDist < 0.05 is a pinch
PinchThreshold == 50

\* wrist positions (wrist.x, wrist.y) a detection can report, in halves
Wrists == { <<0, 1>>, <<2, 1>>, <<1, 0>> }

Abs(n) == IF n < 0 THEN -n ELSE n

\* tips = [4, 8, 12, 16, 20].map(i => landmarks[i]); avgDist = sum / 5
AvgDistOf(tips) == (tips[1] + tips[2] + tips[3] + tips[4] + tips[5]) \div 5

\* the hands a detection can report: the distances of the five finger tips
\* (thumb, index, middle, ring, little) to the wrist and the distance of the
\* thumb tip to the index tip
Hands ==
  { [tips |-> <<100, 100, 100, 100, 100>>, pinchDist |-> 0],
    [tips |-> <<100, 100, 100, 100, 100>>, pinchDist |-> 50],
    [tips |-> <<150, 150, 150, 150, 150>>, pinchDist |-> 40],
    [tips |-> <<150, 150, 150, 150, 200>>, pinchDist |-> 60],
    [tips |-> <<250, 250, 250, 250, 200>>, pinchDist |-> 49],
    [tips |-> <<250, 250, 250, 250, 250>>, pinchDist |-> 200],
    [tips |-> <<300, 300, 300, 300, 300>>, pinchDist |-> 0],
    [tips |-> <<300, 250, 300, 350, 300>>, pinchDist |-> 100] }

ModeAfter_single(sample, m) ==
  IF sample > 200 THEN "chaos" ELSE "formed"

ModeAfter_swapped(sample, m) ==
  IF sample > HighThreshold THEN "formed"
  ELSE IF sample < LowThreshold THEN "chaos"
  ELSE m

\* if (avgDist > 0.25) setMode('chaos') else if (avgDist < 0.15) setMode('formed')
ModeAfter(sample, m) ==
  IF sample > HighThreshold THEN "chaos"
  ELSE IF sample < LowThreshold THEN "formed"
  ELSE m

\* setIsPinching(pinchDist < 0.05)
PinchOf(pinchDist) == pinchDist < PinchThreshold

\* setHandPosition({ x: 1 - wrist.x, y: wrist.y }), in halves
HandOf(wx, wy) == [x |-> 2 - wx, y |-> wy]

NoHandPinching_kept(p) == p

NoHandPinching_set(p) == TRUE

\* the else branch: setHandPosition(null); setIsPinching(false)
NoHandPinching(p) == FALSE

\* runVision: the awaits up to the registration of the loadeddata listener
\* (the resolved getUserMedia sets video.srcObject = stream); a rejected
\* await, or a browser without getUserMedia, ends the pipeline
RunVision ==
  /\ visionPc \in {"forVisionTasks", "createFromOptions", "getUserMedia"}
  /\ \/ /\ visionPc' = CASE visionPc = "forVisionTasks" -> "createFromOptions"
                         [] visionPc = "createFromOptions" -> "getUserMedia"
                         [] visionPc = "getUserMedia" -> "loadeddata"
        /\ srcObject' = IF visionPc = "getUserMedia" THEN "live" ELSE srcObject
     \/ /\ visionPc' = "stopped"
        /\ UNCHANGED srcObject
  /\ UNCHANGED <<mode, handPosition, isPinching, videoIsNew, avgDist, customImages, cleanedUp>>
  /\ UNCHANGED polaroidVars
  /\ UNCHANGED ornamentVars
  /\ UNCHANGED foliageVars
  /\ UNCHANGED config

\* the playing video delivers a new frame: video.currentTime advances
VideoFrame ==
  /\ visionPc \in {"loadeddata", "predicting"}
  /\ srcObject = "live"
  /\ ~videoIsNew
  /\ videoIsNew' = TRUE
  /\ UNCHANGED <<mode, handPosition, isPinching, visionPc, avgDist,
                 customImages, cleanedUp, srcObject>>
  /\ UNCHANGED polaroidVars
  /\ UNCHANGED ornamentVars
  /\ UNCHANGED foliageVars
  /\ UNCHANGED config

\* const dummy = new THREE.Object3D() in the body of Ornaments: a render of
\* the App (a state setter called with a new value, while the App is mounted)
\* renders Ornaments again, and the frame callbacks that follow use the new
\* object, whose rotation is zero
DummyAfterRender(rendered) == IF rendered THEN <<0, 0, 0>> ELSE dummy

\* predictWebcam, run by the loadeddata event and then by requestAnimationFrame:
\* a detection with landmarks (the setters of an unmounted App change nothing)
PredictHand ==
  /\ visionPc \in {"loadeddata", "predicting"}
  /\ videoIsNew
  /\ \E h \in Hands, wrist \in Wrists :
       IF cleanedUp
       THEN UNCHANGED <<avgDist, mode, isPinching, handPosition>>
       ELSE /\ avgDist' = AvgDistOf(h.tips)
            /\ mode' = ModeAfter(AvgDistOf(h.tips), mode)
            /\ isPinching' = PinchOf(h.pinchDist)
            /\ handPosition' = HandOf(wrist[1], wrist[2])
  /\ videoIsNew' = FALSE
  /\ visionPc' = "predicting"
  /\ dummy' = DummyAfterRender(~cleanedUp)
  /\ UNCHANGED <<customImages, cleanedUp, srcObject>>
  /\ UNCHANGED polaroidVars
  /\ UNCHANGED <<ornaments, pointer, ornTick, instanceColor, fault>>
  /\ UNCHANGED foliageVars
  /\ UNCHANGED config

\* predictWebcam: a detection without landmarks
PredictNoHand ==
  /\ visionPc \in {"loadeddata", "predicting"}
  /\ videoIsNew
  /\ IF cleanedUp
     THEN UNCHANGED <<handPosition, isPinching, avgDist>>
     ELSE /\ handPosition' = NullHand
          /\ isPinching' = NoHandPinching(isPinching)
          /\ avgDist' = NoSample
  /\ videoIsNew' = FALSE
  /\ visionPc' = "predicting"
  /\ dummy' = DummyAfterRender(~cleanedUp /\ (handPosition # NullHand \/ isPinching))
  /\ UNCHANGED <<mode, customImages, cleanedUp, srcObject>>
  /\ UNCHANGED polaroidVars
  /\ UNCHANGED <<ornaments, pointer, ornTick, instanceColor, fault>>
  /\ UNCHANGED foliageVars
  /\ UNCHANGED config

\* the cleanup of the effect: cancelAnimationFrame(animationFrameId), which
\* cancels the request of the last predictWebcam call if there was one, and
\* the stop of the tracks of video.srcObject if it is set; the pending awaits
\* of runVision and the loadeddata listener stay as they are
Cleanup ==
  /\ ~cleanedUp
  /\ cleanedUp' = TRUE
  /\ visionPc' = IF visionPc = "predicting" THEN "cancelled" ELSE visionPc
  /\ srcObject' = IF srcObject = "live" THEN "stopped" ELSE srcObject
  /\ UNCHANGED <<mode, handPosition, isPinching, videoIsNew, avgDist, customImages>>
  /\ UNCHANGED polaroidVars
  /\ UNCHANGED ornamentVars
  /\ UNCHANGED foliageVars
  /\ UNCHANGED config

\* (video.currentTime starts at 0 and lastVideoTime at -1, and predictWebcam
\* sets lastVideoTime = video.currentTime, so the two differ exactly when the
\* video has advanced since the last processed call; a call that finds them
\* equal only requests the next callback and changes no state)

(***************************************************************************)
(* CONFIG and Foliage                                                      *)
(***************************************************************************)
\* CONFIG: particleCount, ornamentCount and dimensions.radius (in thousandths)
ProgramConfig == [particleCount |-> 28000, ornamentCount |-> 1000, radius |-> 3500]

\* fixed-point units of uProgress per 1.0
ProgressScale == 10000

\* THREE.MathUtils.lerp(x, y, t) = (1 - t) * x + t * y, for t = num / den
Lerp(x, y, num, den) ==
  IF (y - x) * num >= 0 THEN x + ((y - x) * num + den \div 2) \div den
  ELSE x - (((x - y) * num + den \div 2) \div den)

\* const targetProgress = mode === 'formed' ? 1.0 : 0.0
TargetProgress(m) == IF m = "formed" THEN ProgressScale ELSE 0

\* the body of the useFrame of Foliage with frame delta d (in hundredths of a
\* second): uProgress = lerp(uProgress, targetProgress, delta * 0.8)
FoliageUpdate(d) ==
  /\ uProgress' = Lerp(uProgress, TargetProgress(mode), d * 8, 1000)
  /\ foliageTick' = [ n |-> foliageTick.n + 1, delta |-> d,
                      from |-> uProgress, target |-> TargetProgress(mode) ]

\* frame deltas of the render loop, in hundredths of a second: none, a frame
\* at 50 Hz, and the first frames after a stall of one and of two seconds
FoliageDeltas == {0, 2, 100, 200}

\* uProgress: 0 in the uniforms of LuxuryFoliageMaterial
InitFoliage ==
  /\ uProgress = 0
  /\ foliageTick = [n |-> 0, delta |-> 0, from |-> 0, target |-> 0]

(***************************************************************************)
(* Polaroids                                                               *)
(***************************************************************************)
\* photos[i].id = i
Photos == 0..(NumPhotos - 1)

\* projected positions (tempV.x, tempV.y) a frame can take, in NDC units
NdcGrid == { <<-1, 0>>, <<0, 1>> }

\* let closestDist = 999
ClosestInit == 999

\* handNDC_X = (handPosition.x - 0.5) * 2
HandNdcX(h) == h.x - 1
\* handNDC_Y = -(handPosition.y - 0.5) * 2
HandNdcY(h) == -(h.y - 1)

\* dist * dist for dist = Math.sqrt((tempV.x - handNDC_X)^2 + (tempV.y - handNDC_Y)^2);
\* Math.sqrt is monotone, so distances compare as their squares do
DistSq(p, h) ==
  (p[1] - HandNdcX(h)) * (p[1] - HandNdcX(h)) + (p[2] - HandNdcY(h)) * (p[2] - HandNdcY(h))

Closer_orEqual(d, closest) == d <= closest

\* if (dist < closestDist)
Closer(d, closest) == d < closest

\* children.forEach((child, i) => ...): the scan from child i on, with the
\* closest squared distance and the id found so far
RECURSIVE ScanClosest(_, _, _, _, _)
ScanClosest(i, ndc, h, closest, id) ==
  IF i >= NumPhotos THEN id
  ELSE IF Closer(DistSq(ndc[i], h), closest)
       THEN ScanClosest(i + 1, ndc, h, DistSq(ndc[i], h), i)
       ELSE ScanClosest(i + 1, ndc, h, closest, id)

\* nextFocusedId: null unless a hand position is known and there are children
NextFocusedId(h, ndc) ==
  IF h # NullHand /\ NumPhotos > 0
  THEN ScanClosest(0, ndc, h, ClosestInit * ClosestInit, NullId)
  ELSE NullId

FocusUpdate_always(pinching, current, next) == next

FocusUpdate_keepOnNull(pinching, current, next) ==
  IF ~pinching /\ next # NullId THEN next ELSE current

\* if (!isPinching) focusedIdRef.current = nextFocusedId
FocusUpdate(pinching, current, next) ==
  IF ~pinching THEN next ELSE current

\* const isFocused = photo.id === activeId && handPosition !== null
IsFocused(id, activeId, h) == id = activeId /\ h # NullHand

IsZoomed_anyPinch(focused, pinching) == pinching

\* const isZoomed = isFocused && isPinching
IsZoomed(focused, pinching) == focused /\ pinching

\* the pose a frame is steered to: the target position and rotation, the
\* target scale and the lerp rate (in tenths)
PoseOf(id, activeId, h, pinching, m) ==
  LET focused == IsFocused(id, activeId, h)
      zoomed == IsZoomed(focused, pinching)
      ambient == IF m = "formed" /\ ~zoomed
                 THEN "formed"
                 ELSE IF h # NullHand /\ ~zoomed THEN "chaosTurned" ELSE "chaos"
  IN [ isFocused |-> focused,
       isZoomed |-> zoomed,
       target |-> IF zoomed THEN "zoom" ELSE ambient,
       scale |-> IF zoomed THEN "zoom" ELSE IF focused THEN "hover" ELSE "base",
       rate |-> IF zoomed THEN 50 ELSE 25 ]

\* the frames the last frame callback zoomed
ZoomedIds(f) == { i \in Photos : f.pose[i].isZoomed }

\* the body of the useFrame of Polaroids: project every child (the lerps of
\* the earlier callbacks and the camera have moved them), select the focused
\* frame, steer every frame; photos is only read
PolaroidsUpdate ==
  /\ \E ndc \in [Photos -> NdcGrid] :
       LET next == NextFocusedId(handPosition, ndc)
           activeId == FocusUpdate(isPinching, focusedIdRef, next)
       IN /\ childNdc' = ndc
          /\ focusedIdRef' = activeId
          /\ frame' = [ ticked |-> TRUE,
                        hand |-> handPosition,
                        pinch |-> isPinching,
                        mode |-> mode,
                        wasZoomed |-> ZoomedIds(frame) # {},
                        pose |-> [i \in Photos |-> PoseOf(i, activeId, handPosition, isPinching, mode)] ]
  /\ UNCHANGED photos

\* a frame of the render loop, for Polaroids
PolaroidsFrame ==
  /\ PolaroidsUpdate
  /\ UNCHANGED appVars
  /\ UNCHANGED ornamentVars
  /\ UNCHANGED foliageVars
  /\ UNCHANGED config

\* number of images of DEFAULT_IMAGES
NumDefaultImages == 8

\* url: activeImages[i % activeImages.length], as the list it comes from and
\* the index in it; activeImages is customImages unless that is empty
UrlOf(i, images) ==
  IF images > 0 THEN <<"custom", i % images>> ELSE <<"default", i % NumDefaultImages>>

\* the outcomes of the Math.random() calls of the run of the useMemo at the
\* mount: treeY in thousandths, treeAngle in quarter turns, chaosPos in world
\* units
MountDraw ==
  [i \in Photos |-> [treeY |-> 1000 * i - 3000, treeAngle |-> i % 4,
                     chaosPos |-> <<i - 9, 2 * i, 5 - i>>]]

\* the outcomes of the Math.random() calls of a later run of the useMemo
LaterDraws ==
  { [i \in Photos |-> [treeY |-> 3000 - 500 * i, treeAngle |-> (i + 2) % 4,
                       chaosPos |-> <<8 - 3 * i, -4, i>>]],
    [i \in Photos |-> [treeY |-> 250 * i, treeAngle |-> 3 - (i % 4),
                       chaosPos |-> <<i, i - 7, 6>>]] }

\* the photos array the useMemo builds, for the random outcomes draw
PhotosOf(draw, images) ==
  [i \in Photos |-> [id |-> i, treeY |-> draw[i].treeY, treeAngle |-> draw[i].treeAngle,
                     chaosPos |-> draw[i].chaosPos, url |-> UrlOf(i, images)]]

NoPose == [isFocused |-> FALSE, isZoomed |-> FALSE, target |-> "none",
           scale |-> "base", rate |-> 25]

InitApp ==
  /\ mode = "formed"
  /\ handPosition = NullHand
  /\ isPinching = FALSE
  /\ visionPc = "forVisionTasks"
  /\ videoIsNew = TRUE
  /\ avgDist = NoSample
  /\ customImages = 0
  /\ cleanedUp = FALSE
  /\ srcObject = "null"

InitPolaroids ==
  /\ focusedIdRef = NullId
  /\ childNdc = [i \in Photos |-> <<0, 1>>]
  /\ frame = [ ticked |-> FALSE, hand |-> NullHand, pinch |-> FALSE, mode |-> "formed",
               wasZoomed |-> FALSE, pose |-> [i \in Photos |-> NoPose] ]
  /\ photos = PhotosOf(MountDraw, 0)

(***************************************************************************)
(* Ornaments                                                               *)
(***************************************************************************)
\* fixed-point units per thousandth of a world unit, for positions,
\* velocities and distances
Milli == 100
\* fixed-point units per world unit
Scale == 1000 * Milli

\* a / b for b > 0, rounded to the nearest integer
RoundDiv(a, b) ==
  IF a >= 0 THEN (a + b \div 2) \div b ELSE -(((b \div 2) - a) \div b)

VecAdd(u, v) == <<u[1] + v[1], u[2] + v[2], u[3] + v[3]>>
VecSub(u, v) == <<u[1] - v[1], u[2] - v[2], u[3] - v[3]>>
\* v.multiplyScalar(num / den)
VecScale(v, num, den) ==
  <<RoundDiv(v[1] * num, den), RoundDiv(v[2] * num, den), RoundDiv(v[3] * num, den)>>
Zero3 == <<0, 0, 0>>
\* the point (x, y, z), given in thousandths of a world unit
Point(x, y, z) == <<x * Milli, y * Milli, z * Milli>>

\* the largest r in lo..hi with r * r <= n
RECURSIVE SqrtBetween(_, _, _)
SqrtBetween(n, lo, hi) ==
  IF lo >= hi THEN lo
  ELSE IF ((lo + hi + 1) \div 2) * ((lo + hi + 1) \div 2) <= n
       THEN SqrtBetween(n, (lo + hi + 1) \div 2, hi)
       ELSE SqrtBetween(n, lo, ((lo + hi + 1) \div 2) - 1)

\* Math.sqrt, rounded down
Sqrt(n) == SqrtBetween(n, 0, 46340)

\* v in thousandths of a world unit
InMilli(v) == VecScale(v, 1, Milli)

\* v.length(): the square root is taken on thousandths of a world unit
Length(v) ==
  Milli * Sqrt(InMilli(v)[1] * InMilli(v)[1] + InMilli(v)[2] * InMilli(v)[2]
               + InMilli(v)[3] * InMilli(v)[3])

\* a.distanceTo(b)
DistanceTo(a, b) == Length(VecSub(a, b))

\* v.normalize() = v.divideScalar(v.length() || 1): a unit vector, in
\* thousandths, and the zero vector for the zero vector
Normalize(v) ==
  IF Length(v) = 0 THEN Zero3 ELSE VecScale(InMilli(v), 1000, Length(v) \div Milli)

\* if (dist < 3.5), in Scale units
InteractionRadius == 3500 * Milli
\* the factor 15.0 of str
RepulsionStrength == 15

\* state.viewport.width and state.viewport.height of the default camera, in
\* world units
ViewportWidth == 30
ViewportHeight == 16

\* mouseVec.set(pointer.x * viewport.width / 2, pointer.y * viewport.height / 2, 2);
\* the pointer is in tenths of an NDC unit
MouseVec(p) ==
  << RoundDiv(p[1] * ViewportWidth * Scale, 20),
     RoundDiv(p[2] * ViewportHeight * Scale, 20),
     2 * Scale >>

TypeProfile_undamped(type) ==
  CASE type = "box"    -> [speed |-> 12, damping |-> 82, repulsionWeight |-> 2]
    [] type = "star"   -> [speed |-> 40, damping |-> 92, repulsionWeight |-> 12]
    [] type = "bell"   -> [speed |-> 20, damping |-> 88, repulsionWeight |-> 5]
    [] type = "cane"   -> [speed |-> 40, damping |-> 94, repulsionWeight |-> 15]
    [] type = "light"  -> [speed |-> 60, damping |-> 100, repulsionWeight |-> 25]
    [] type = "bauble" -> [speed |-> 28, damping |-> 90, repulsionWeight |-> 8]
    [] OTHER           -> [speed |-> 30, damping |-> 90, repulsionWeight |-> 10]

\* the if-chain on type: speed in tenths, damping in hundredths,
\* repulsionWeight in tenths
TypeProfile(type) ==
  CASE type = "box"    -> [speed |-> 12, damping |-> 82, repulsionWeight |-> 2]
    [] type = "star"   -> [speed |-> 40, damping |-> 92, repulsionWeight |-> 12]
    [] type = "bell"   -> [speed |-> 20, damping |-> 88, repulsionWeight |-> 5]
    [] type = "cane"   -> [speed |-> 40, damping |-> 94, repulsionWeight |-> 15]
    [] type = "light"  -> [speed |-> 60, damping |-> 95, repulsionWeight |-> 25]
    [] type = "bauble" -> [speed |-> 28, damping |-> 90, repulsionWeight |-> 8]
    [] OTHER           -> [speed |-> 30, damping |-> 90, repulsionWeight |-> 10]

OrnamentTypes == {"bauble", "box", "light", "star", "bell", "cane"}

\* const dest = isFormed ? item.target : item.chaos
DestOf(item, m) == IF m = "formed" THEN item.target ELSE item.chaos

\* const force = dest.clone().sub(item.current).multiplyScalar(speed * delta);
\* delta is in hundredths of a second
ForceOf(dest, current, speed, delta) == VecScale(VecSub(dest, current), speed * delta, 1000)

Repulsion_unguarded(current, mouse, weight, delta) ==
  LET dist == DistanceTo(current, mouse)
      dir == Normalize(VecSub(current, mouse))
      str == RoundDiv(RoundDiv((InteractionRadius - dist) * RepulsionStrength * delta, 100) * weight, 10)
  IN VecScale(dir, str, 1000)

\* the velocity the mouse interaction adds:
\* if (dist < 3.5) { dir = current - mouseVec, normalised;
\*                   str = (3.5 - dist) * 15.0 * delta * repulsionWeight;
\*                   velocity.add(dir.multiplyScalar(str)) }
Repulsion(current, mouse, weight, delta) ==
  LET dist == DistanceTo(current, mouse)
      dir == Normalize(VecSub(current, mouse))
      str == RoundDiv(RoundDiv((InteractionRadius - dist) * RepulsionStrength * delta, 100) * weight, 10)
  IN IF dist < InteractionRadius THEN VecScale(dir, str, 1000) ELSE Zero3

Damp_none(v, damping) == v

\* item.velocity.multiplyScalar(damping)
Damp(v, damping) == VecScale(v, damping, 100)

\* one pass of the forEach body over an item: force, repulsion, damping, move
Integrate(item, prof, m, mouse, delta) ==
  LET force == ForceOf(DestOf(item, m), item.current, prof.speed, delta)
      repel == Repulsion(item.current, mouse, prof.repulsionWeight, delta)
      velocity == Damp(VecAdd(VecAdd(item.velocity, force), repel), prof.damping)
  IN [item EXCEPT !.velocity = velocity, !.current = VecAdd(item.current, velocity)]

\* the locals of the forEach body for an item
LocalsOf(item, prof, m, mouse, delta) ==
  [ dist |-> DistanceTo(item.current, mouse),
    away |-> VecSub(item.current, mouse),
    repulsion |-> Repulsion(item.current, mouse, prof.repulsionWeight, delta),
    current |-> item.current,
    velocity |-> item.velocity,
    speed |-> prof.speed,
    damping |-> prof.damping ]

\* frame deltas, in hundredths of a second
Deltas == {0, 2}
\* positions of the mouse pointer, in tenths of an NDC unit
Pointers == { <<0, 0>>, <<10, 0>> }

\* the place of a type in the updateList calls of useFrame: baubles, boxes,
\* lights, stars, bells, canes
TypeRank(type) ==
  CASE type = "bauble" -> 1
    [] type = "box"    -> 2
    [] type = "light"  -> 3
    [] type = "star"   -> 4
    [] type = "bell"   -> 5
    [] type = "cane"   -> 6
    [] OTHER           -> 7

\* the indices of list of the types of rank r and above, in the order in which
\* the updateList calls and their forEach process them
RECURSIVE ProcessingOrder(_, _)
ProcessingOrder(list, r) ==
  IF r > 7 THEN << >>
  ELSE SelectSeq([i \in 1..Len(list) |-> i], LAMBDA i : TypeRank(list[i].type) = r)
       \o ProcessingOrder(list, r + 1)

\* the values Math.sin(...) * 0.3 and Math.cos(...) * 0.3 of the rotation of
\* a bell followed, in thousandths of a radian
BellSwings == { <<300, -300>>, <<0, 300>> }

\* the rotation logic on dummy.rotation, in thousandths of a radian: rot is
\* the rotation the object has from the item processed before
Spin(rot, type, d, swing) ==
  IF type = "bell" THEN <<swing[1], rot[2], swing[2]>>
  ELSE IF type = "cane" THEN <<200, rot[2] + d * 5, 200>>
  ELSE << rot[1] + d * (IF type = "box" THEN 2 ELSE 5),
          rot[2] + d * 10,
          rot[3] + (IF type = "star" THEN d * 8 ELSE 0) >>

\* the rotation logic over the items of order: the rotation dummy ends with
\* and the rotation emitted by setMatrixAt for every item
RECURSIVE SpinThrough(_, _, _, _, _)
SpinThrough(order, list, d, swing, acc) ==
  IF order = << >> THEN acc
  ELSE SpinThrough(Tail(order), list, d, swing,
         [ rot |-> Spin(acc.rot, list[Head(order)].type, d, swing),
           emitted |-> (Head(order) :> Spin(acc.rot, list[Head(order)].type, d, swing))
                       @@ acc.emitted ])

\* lightRef.current.instanceColor when updateList reaches l.490: setColorAt
\* creates it, and the twinkle calls setColorAt for every light in formed mode
ColorAfterLights(list, m, color) ==
  IF m = "formed" /\ (\E i \in DOMAIN list : list[i].type = "light") THEN "set" ELSE color

\* if (type === 'light') ref.current.instanceColor!.needsUpdate = true:
\* a TypeError when instanceColor is null
InstanceColorThrows(color) == color = "null"

\* the body of the useFrame of Ornaments with frame delta d: the updateList
\* calls over the list, with the profile profiles[type] for an item of a type;
\* a throw in the call for the lights ends the callback before the calls for
\* the stars, the bells and the canes
UpdateList(d, swing, profiles) ==
  LET color == ColorAfterLights(ornaments, mode, instanceColor)
      throws == InstanceColorThrows(color)
      done == { i \in DOMAIN ornaments :
                  ~throws \/ TypeRank(ornaments[i].type) <= TypeRank("light") }
      order == SelectSeq(ProcessingOrder(ornaments, 1), LAMBDA i : i \in done)
      spun == SpinThrough(order, ornaments, d, swing, [rot |-> dummy, emitted |-> << >>])
  IN /\ ornaments' = [i \in DOMAIN ornaments |->
           IF i \in done
           THEN Integrate(ornaments[i], profiles[ornaments[i].type], mode, MouseVec(pointer), d)
           ELSE ornaments[i]]
     /\ ornTick' = [ n |-> ornTick.n + 1,
                     delta |-> d,
                     items |-> [i \in DOMAIN ornaments |->
                        LocalsOf(ornaments[i], profiles[ornaments[i].type], mode, MouseVec(pointer), d)
                        @@ [ done |-> i \in done,
                             rotation |-> IF i \in done THEN spun.emitted[i]
                                          ELSE IF ornTick.n > 0 THEN ornTick.items[i].rotation
                                          ELSE <<0, 0, 0>> ]] ]
     /\ dummy' = spun.rot
     /\ instanceColor' = color
     /\ fault' = (fault \/ throws)
     /\ UNCHANGED pointer

\* a frame of the render loop, for Ornaments
OrnamentsFrame ==
  /\ ornTick.n < MaxOrnTicks
  /\ \E d \in Deltas, swing \in BellSwings :
       UpdateList(d, swing, [t \in OrnamentTypes |-> TypeProfile(t)])
  /\ UNCHANGED appVars
  /\ UNCHANGED polaroidVars
  /\ UNCHANGED foliageVars
  /\ UNCHANGED config

\* a pointer event moves state.pointer
PointerMove ==
  /\ \E p \in Pointers : p # pointer /\ pointer' = p
  /\ UNCHANGED <<ornaments, ornTick, dummy, instanceColor, fault>>
  /\ UNCHANGED appVars
  /\ UNCHANGED polaroidVars
  /\ UNCHANGED foliageVars
  /\ UNCHANGED config

\* an OrnamentData as the useMemo builds it: current is a copy of chaos and
\* the velocity is zero
NewOrnament(type, chaos, target) ==
  [type |-> type, chaos |-> chaos, target |-> target, current |-> chaos, velocity |-> Zero3]

\* the layouts followed: an ornament at the pointer's projected position, one
\* inside the interaction radius, one exactly on it, one beyond it
Layouts ==
  { <<NewOrnament("bauble", Point(0, 0, 2000), Point(0, 3000, 0))>>,
    <<NewOrnament("light", Point(1000, 2000, 0), Point(0, 4000, 0))>>,
    <<NewOrnament("box", Point(3500, 0, 2000), Point(1000, 1000, 0))>>,
    <<NewOrnament("star", Point(0, 2800, 4100), Point(2000, -1000, 1000)),
      NewOrnament("cane", Point(-1000, 1000, 2000), Point(-1000, 0, 500))>>,
    <<NewOrnament("bell", Point(15000, 500, 0), Point(1500, -2000, 500))>> }

\* the rest of the state of Ornaments at the mount, for a population with
\* lights (the 1000 ornaments of CONFIG.ornamentCount, of which the model
\* follows a few): the useLayoutEffect has called setColorAt on the lights
MountedOrnaments ==
  /\ pointer = <<0, 0>>
  /\ ornTick = [n |-> 0, delta |-> 0, items |-> <<>>]
  /\ dummy = <<0, 0, 0>>
  /\ instanceColor = "set"
  /\ fault = FALSE

InitOrnaments ==
  /\ ornaments \in Layouts
  /\ MountedOrnaments

\* the Ornaments integrator under the hand-tracking loop and the mouse
InitPhysics ==
  InitApp /\ InitPolaroids /\ InitOrnaments /\ InitFoliage /\ config = ProgramConfig

NextPhysics ==
  RunVision \/ VideoFrame \/ PredictHand \/ PredictNoHand \/ PointerMove \/ OrnamentsFrame

SpecPhysics == InitPhysics /\ [][NextPhysics]_vars

(***************************************************************************)
(* The integrator at a constant frame delta of 0.1 s, mode formed, with    *)
(* the pointer away from the ornament: one ornament starting at (0,0,0)    *)
(* with target (0,10,0), of each type of the program and of the two        *)
(* profiles of the convergence scenario                                    *)
(***************************************************************************)
\* the profiles of the scenario: A (speed 1, damping 0.9), B (speed 5, damping 0.5)
ScenarioProfile(type) ==
  IF type = "A" THEN [speed |-> 10, damping |-> 90, repulsionWeight |-> 10]
  ELSE [speed |-> 50, damping |-> 50, repulsionWeight |-> 10]

ScenarioTypes == {"A", "B"}

\* deltaTime = 0.1, in hundredths of a second
SteadyDelta == 10

InitConverge ==
  /\ InitApp
  /\ InitPolaroids
  /\ InitFoliage
  /\ config = ProgramConfig
  /\ \E type \in OrnamentTypes \cup ScenarioTypes :
       ornaments = <<NewOrnament(type, Point(0, 0, 0), Point(0, 10000, 0))>>
  /\ pointer = <<10, 0>>
  /\ ornTick = [n |-> 0, delta |-> 0, items |-> <<>>]
  /\ dummy = <<0, 0, 0>>
  /\ instanceColor = "set"
  /\ fault = FALSE

\* a frame of the render loop on an ornament of a type of the program
SteadyFrame ==
  /\ ornTick.n < MaxSteadyTicks
  /\ ornaments[1].type \in OrnamentTypes
  /\ \E swing \in BellSwings :
       UpdateList(SteadyDelta, swing, [t \in OrnamentTypes |-> TypeProfile(t)])
  /\ UNCHANGED appVars
  /\ UNCHANGED polaroidVars
  /\ UNCHANGED foliageVars
  /\ UNCHANGED config

\* a frame of the render loop on an ornament of a profile of the scenario
ScenarioFrame ==
  /\ ornTick.n < MaxSteadyTicks
  /\ ornaments[1].type \in ScenarioTypes
  /\ \E swing \in BellSwings :
       UpdateList(SteadyDelta, swing, [t \in ScenarioTypes |-> ScenarioProfile(t)])
  /\ UNCHANGED appVars
  /\ UNCHANGED polaroidVars
  /\ UNCHANGED foliageVars
  /\ UNCHANGED config

NextConverge == SteadyFrame \/ ScenarioFrame

SpecConverge == InitConverge /\ [][NextConverge]_vars

NoOrnaments ==
  /\ ornaments = <<>>
  /\ MountedOrnaments

Init == InitApp /\ InitPolaroids /\ NoOrnaments /\ InitFoliage /\ config = ProgramConfig

Next == RunVision \/ VideoFrame \/ PredictHand \/ PredictNoHand \/ PolaroidsFrame

Spec == Init /\ [][Next]_vars

(***************************************************************************)
(* The blend progress of the Foliage under the hand-tracking loop          *)
(***************************************************************************)
\* a frame of the render loop, for Foliage
FoliageFrame ==
  /\ foliageTick.n < MaxFoliageTicks
  /\ \E d \in FoliageDeltas : FoliageUpdate(d)
  /\ UNCHANGED appVars
  /\ UNCHANGED polaroidVars
  /\ UNCHANGED ornamentVars
  /\ UNCHANGED config

NextFoliage == RunVision \/ VideoFrame \/ PredictHand \/ PredictNoHand \/ FoliageFrame

SpecFoliage == Init /\ [][NextFoliage]_vars

(***************************************************************************)
(* The scene: the frame callbacks of Foliage, Ornaments and Polaroids run  *)
(* one after the other in every frame of the render loop, with the same    *)
(* delta, under the hand-tracking loop and the photo manager               *)
(***************************************************************************)
\* a frame of the render loop: the callbacks in the order of the mount; a
\* callback that throws ends the frame, so Polaroids does not run after a
\* throw of Ornaments
SceneFrame ==
  /\ ornTick.n < MaxSceneFrames
  /\ \E d \in Deltas, swing \in BellSwings :
       /\ FoliageUpdate(d)
       /\ UpdateList(d, swing, [t \in OrnamentTypes |-> TypeProfile(t)])
  /\ IF InstanceColorThrows(ColorAfterLights(ornaments, mode, instanceColor))
     THEN UNCHANGED polaroidVars
     ELSE PolaroidsUpdate
  /\ UNCHANGED appVars
  /\ UNCHANGED config

\* PhotoManager.applyChanges with a list that has gained images:
\* setCustomImages(images) renders the App, activeImages is a new array and
\* the useMemo of Polaroids builds photos again
ApplyImages ==
  /\ ~cleanedUp
  /\ \E k \in (customImages + 1)..MaxImages, draw \in LaterDraws :
       /\ customImages' = k
       /\ photos' = PhotosOf(draw, k)
  /\ dummy' = DummyAfterRender(TRUE)
  /\ UNCHANGED <<mode, handPosition, isPinching, visionPc, videoIsNew, avgDist,
                 cleanedUp, srcObject>>
  /\ UNCHANGED <<focusedIdRef, childNdc, frame>>
  /\ UNCHANGED <<ornaments, pointer, ornTick, instanceColor, fault>>
  /\ UNCHANGED foliageVars
  /\ UNCHANGED config

NextLayout ==
  RunVision \/ VideoFrame \/ PredictHand \/ PredictNoHand \/ ApplyImages \/ SceneFrame

SpecLayout == InitPhysics /\ [][NextLayout]_vars

(***************************************************************************)
(* The start of the scene for the values CONFIG can be given               *)
(***************************************************************************)
\* the values of CONFIG followed: the program's, no items, a negative
\* ornamentCount, a single ornament, and a zero dimensions.radius
StartupConfigs ==
  { ProgramConfig,
    [particleCount |-> 0, ornamentCount |-> 0, radius |-> 3500],
    [particleCount |-> 28000, ornamentCount |-> -1, radius |-> 3500],
    [particleCount |-> 28000, ornamentCount |-> 1, radius |-> 3500],
    [particleCount |-> 28000, ornamentCount |-> 1000, radius |-> 0] }

\* the target of the useMemo of Ornaments for y (in thousandths) and angle 0:
\* (radius - 0.4) * normalizedY along x, normalizedY = 1 - (y + 4.5) / 9
TargetAt(cfg, y) == Point(RoundDiv((cfg.radius - 400) * (4500 - y), 9000), y, 0)

\* the lists the useMemo of Ornaments can build and the model follows: none
\* for a count of 0 or less (the for loop does not run), else an ornament
\* of a type, with a chaos position in the sphere and a target on the cone
PopulationsOf(cfg) ==
  IF cfg.ornamentCount <= 0 THEN { << >> }
  ELSE { <<NewOrnament(type, Point(0, 0, 6000), TargetAt(cfg, 0))>> : type \in {"bauble", "light", "cane"} }

\* lightRef.current.instanceColor after the useLayoutEffect: setColorAt has
\* run if there is a light, which of 1000 ornaments there is
ColorAtMount(cfg, list) ==
  IF cfg.ornamentCount > Len(list) \/ (\E i \in DOMAIN list : list[i].type = "light")
  THEN "set" ELSE "null"

InitStartup ==
  /\ InitApp
  /\ InitPolaroids
  /\ InitFoliage
  /\ config \in StartupConfigs
  /\ ornaments \in PopulationsOf(config)
  /\ pointer = <<0, 0>>
  /\ ornTick = [n |-> 0, delta |-> 0, items |-> <<>>]
  /\ dummy = <<0, 0, 0>>
  /\ instanceColor = ColorAtMount(config, ornaments)
  /\ fault = FALSE

NextStartup == RunVision \/ VideoFrame \/ PredictHand \/ PredictNoHand \/ SceneFrame

SpecStartup == InitStartup /\ [][NextStartup]_vars

(***************************************************************************)
(* The integrator when the render loop stalls: one ornament of a type of   *)
(* the program, at rest at 0.01 from its target, mode formed, the pointer  *)
(* beyond the interaction radius, and frame deltas of up to two seconds    *)
(***************************************************************************)
\* frame deltas, in hundredths of a second: a frame at 50 Hz and the first
\* frames after stalls of one and of two seconds
StallDeltas == {2, 100, 200}

\* the distance of the ornament to its target at the mount: 0.01
StallStart == 10 * Milli

InitStall ==
  /\ InitApp
  /\ InitPolaroids
  /\ InitFoliage
  /\ config = ProgramConfig
  /\ \E type \in OrnamentTypes :
       ornaments = <<NewOrnament(type, Point(0, 1010, 0), Point(0, 1000, 0))>>
  /\ pointer = <<10, 0>>
  /\ ornTick = [n |-> 0, delta |-> 0, items |-> <<>>]
  /\ dummy = <<0, 0, 0>>
  /\ instanceColor = "set"
  /\ fault = FALSE

\* a frame of the render loop, for Ornaments, with the delta of a stall
StallFrame ==
  /\ ornTick.n < MaxStallTicks
  /\ \A i \in DOMAIN ornaments :
       /\ DistanceTo(ornaments[i].current, ornaments[i].target) <= StallBoundFactor * StallStart
       /\ Length(ornaments[i].velocity) <= StallBoundFactor * StallStart
  /\ \E d \in StallDeltas, swing \in BellSwings :
       UpdateList(d, swing, [t \in OrnamentTypes |-> TypeProfile(t)])
  /\ UNCHANGED appVars
  /\ UNCHANGED polaroidVars
  /\ UNCHANGED foliageVars
  /\ UNCHANGED config

NextStall == StallFrame

SpecStall == InitStall /\ [][NextStall]_vars

(***************************************************************************)
(* The effect of the App and its cleanup: the unmount of the App at any    *)
(* point of the asynchronous initialisation or of the prediction loop      *)
(***************************************************************************)
NextTeardown == RunVision \/ VideoFrame \/ PredictHand \/ PredictNoHand \/ Cleanup

SpecTeardown == Init /\ [][NextTeardown]_vars

(***************************************************************************)
(* Properties of the hand-tracking loop and of the focus/zoom selector     *)
(***************************************************************************)

\* C1 - lock persistence: in every step taken while isPinching is true, a frame
\* callback included, focusedIdRef.current keeps its value, wherever the
\* pointer is and whichever frame is nearest to it.
LockPersistence == [][isPinching => focusedIdRef' = focusedIdRef]_vars

\* a frame callback ran under a pinch and kept a lock that is no longer the
\* frame nearest to the pointer
LockKeptAwayFromNearest ==
  /\ frame.ticked /\ frame.pinch /\ frame.hand # NullHand
  /\ focusedIdRef # NullId
  /\ focusedIdRef # NextFocusedId(frame.hand, childNdc)

\* C2 - mode hysteresis: a processed openness sample strictly inside the dead
\* band (above 0.15 and below 0.25) leaves the mode as it was, chaos or formed.
ModeHysteresis ==
  [][(avgDist' > LowThreshold /\ avgDist' < HighThreshold) => mode' = mode]_vars

\* a sample inside the dead band was processed in chaos mode, and chaos stayed
DeadBandSampleInChaos ==
  mode = "chaos" /\ avgDist > LowThreshold /\ avgDist < HighThreshold /\ ~videoIsNew

\* a step in which predictWebcam processed a detection with landmarks
SampleProcessed == videoIsNew /\ ~videoIsNew' /\ avgDist' # NoSample

\* C3 - global mode controller: the mode starts as formed; a processed sample
\* above 0.25 makes it chaos, one below 0.15 makes it formed, one in
\* [0.15, 0.25] leaves it, and no other step changes it.
ModeController ==
  /\ mode = "formed"
  /\ [][IF SampleProcessed
        THEN mode' = (IF avgDist' > 250 THEN "chaos"
                      ELSE IF avgDist' < 150 THEN "formed"
                      ELSE mode)
        ELSE mode' = mode]_vars

\* a sample above the high threshold was processed and the mode is chaos
ChaosEntered == mode = "chaos" /\ avgDist > 250

\* C4 - pointer loss clears the lock: after a frame callback that saw a null
\* handPosition the stored locked id is null and no frame is zoomed, and that
\* callback never saw a pinch.
PointerLossClearsLock ==
  (frame.ticked /\ frame.hand = NullHand) =>
     /\ focusedIdRef = NullId
     /\ ZoomedIds(frame) = {}
     /\ ~frame.pinch

\* the pointer was lost while a frame was zoomed (locked under a pinch), and
\* the next frame callback cleared the lock
LockClearedAfterZoom ==
  /\ frame.ticked /\ frame.hand = NullHand /\ frame.wasZoomed
  /\ focusedIdRef = NullId

\* squared projected distance of frame i to the pointer of the last callback
FrameDistSq(i) ==
  (childNdc[i][1] - (frame.hand.x - 1)) * (childNdc[i][1] - (frame.hand.x - 1))
  + (childNdc[i][2] - (1 - frame.hand.y)) * (childNdc[i][2] - (1 - frame.hand.y))

\* C5 - nearest-frame selection: after a frame callback with a pointer and no
\* pinch the locked id is the id of a frame at minimal projected distance to
\* the pointer, and of the lowest-index one among those at that distance.
NearestFrameSelected ==
  (frame.ticked /\ frame.hand # NullHand /\ ~frame.pinch) =>
     /\ focusedIdRef \in Photos
     /\ \A j \in Photos :
          /\ FrameDistSq(focusedIdRef) <= FrameDistSq(j)
          /\ (FrameDistSq(j) = FrameDistSq(focusedIdRef) => focusedIdRef <= j)

\* the selection had to break a tie, and a farther frame precedes the winner
TieBroken ==
  /\ frame.ticked /\ frame.hand # NullHand /\ ~frame.pinch
  /\ focusedIdRef \in Photos
  /\ \E j \in Photos : j > focusedIdRef /\ FrameDistSq(j) = FrameDistSq(focusedIdRef)
  /\ \E j \in Photos : j < focusedIdRef /\ FrameDistSq(j) > FrameDistSq(focusedIdRef)

\* the ambient target of a frame in mode m
IsAmbientTarget(t, m) ==
  IF m = "formed" THEN t = "formed" ELSE t \in {"chaos", "chaosTurned"}

\* C6 - zoom override scope: a frame gets the zoom pose (the position in front
\* of the camera, scale 2.0, the faster rate) only if it is the locked frame
\* and the callback saw a pinch; at most one frame is zoomed, and every other
\* frame gets the ambient target of the mode.
ZoomOverrideScope ==
  frame.ticked =>
     /\ \A i \in Photos :
          (frame.pose[i].target = "zoom" \/ frame.pose[i].scale = "zoom" \/ frame.pose[i].rate = 50)
             => (i = focusedIdRef /\ frame.pinch /\ frame.hand # NullHand)
     /\ Cardinality({ i \in Photos : frame.pose[i].target = "zoom" }) <= 1
     /\ \A i \in Photos :
          frame.pose[i].target # "zoom" =>
             /\ IsAmbientTarget(frame.pose[i].target, frame.mode)
             /\ frame.pose[i].scale # "zoom"

\* one frame is zoomed while the others are in the formed layout
OneFrameZoomed ==
  /\ frame.ticked /\ frame.mode = "formed"
  /\ \E i \in Photos :
       /\ frame.pose[i].target = "zoom"
       /\ \A j \in Photos \ {i} : frame.pose[j].target = "formed"

\* every frame of the last callback has the ambient target of the mode and
\* neither the zoom nor the focus (hover) override
AmbientOnly(f) ==
  \A i \in Photos :
     /\ f.pose[i].target = (IF f.mode = "formed" THEN "formed" ELSE "chaos")
     /\ f.pose[i].scale = "base"
     /\ f.pose[i].rate = 25

\* C7 as stated - no active pointer: a frame callback that sees a null
\* handPosition leaves the stored locked id as it was and gives every frame
\* the ambient target with no override.
NoPointerClearsNothing ==
  [][handPosition = NullHand =>
        /\ focusedIdRef' = focusedIdRef
        /\ ((frame'.ticked /\ frame'.hand = NullHand) => AmbientOnly(frame'))]_vars

\* C7 as amended - no active pointer: after a frame callback that saw a null
\* handPosition the stored locked id is null, and every frame has the ambient
\* target of the mode with neither the zoom nor the focus override.
NoPointerClearsLockAmbientOnly ==
  (frame.ticked /\ frame.hand = NullHand) =>
     /\ focusedIdRef = NullId
     /\ AmbientOnly(frame)

\* a frame callback without a pointer ran in chaos mode right after a zoom
NoPointerTickInChaos ==
  /\ frame.ticked /\ frame.hand = NullHand /\ frame.mode = "chaos" /\ frame.wasZoomed
  /\ \A i \in Photos : frame.pose[i].target = "chaos"

(***************************************************************************)
(* Properties of the Ornaments integrator                                  *)
(***************************************************************************)
\* the convergence tolerance: 0.01 world units
Epsilon == 10 * Milli

\* the number of ticks after which every profile is required to have settled
SettleTicks == 400

\* C8 - convergence to the formed target: at a constant delta of 0.1 in formed
\* mode and without repulsion, the distance of every ornament to its target
\* falls within 0.01 and stays there (from tick SettleTicks on, for as long as
\* the run is followed); for the profiles (1, 0.9) and (5, 0.5) the y-position
\* is within 0.01 of 10 from the 200th tick on.
ConvergesToTarget ==
  /\ (ornTick.n >= 200 /\ ornaments[1].type \in ScenarioTypes)
        => Abs(ornaments[1].current[2] - 10 * Scale) <= Epsilon
  /\ ornTick.n >= SettleTicks =>
        \A i \in DOMAIN ornaments :
           /\ ornTick.items[i].repulsion = Zero3
           /\ DistanceTo(ornaments[i].current, ornaments[i].target) <= Epsilon

\* profile A has made 200 ticks without repulsion and is within 0.01 of y = 10
ScenarioSettled ==
  /\ ornTick.n = 200
  /\ ornaments[1].type = "A"
  /\ ornTick.items[1].repulsion = Zero3
  /\ ornaments[1].current[1] = 0 /\ ornaments[1].current[3] = 0
  /\ Abs(ornaments[1].current[2] - 10 * Scale) <= Epsilon

\* C9 as stated - zero delta is a no-op: after a frame callback with
\* deltaTime = 0 every ornament has the currentPosition and the velocity it
\* had before the callback.
ZeroDeltaIsNoOp ==
  (ornTick.n > 0 /\ ornTick.delta = 0) =>
     \A i \in DOMAIN ornaments :
        /\ ornaments[i].current = ornTick.items[i].current
        /\ ornaments[i].velocity = ornTick.items[i].velocity

Sign(n) == IF n > 0 THEN 1 ELSE IF n < 0 THEN -1 ELSE 0

\* r has no component against a, and none where a has none
NotAgainst(r, a) == \A k \in 1..3 : Sign(r[k]) \in {0, Sign(a[k])}

\* r is not zero and has no component against a: r points the way of a
PointsAlong(r, a) == NotAgainst(r, a) /\ r # Zero3

MaxRepulsion(w, d) ==
  RoundDiv(RoundDiv(InteractionRadius * RepulsionStrength * d, 100) * w, 10)

\* C11 as stated - repulsion at zero distance: an ornament whose
\* currentPosition coincides with the pointer's projected position gets, in
\* that callback, a repulsion velocity of the maximum magnitude of the force
\* law, 3.5 * 15.0 * delta * repulsionWeight (to within 0.001).
ZeroDistanceRepulsionIsMaximal ==
  ornTick.n > 0 =>
     \A i \in DOMAIN ornTick.items :
        ornTick.items[i].dist = 0 =>
           Abs(Length(ornTick.items[i].repulsion)
               - MaxRepulsion(TypeProfile(ornaments[i].type).repulsionWeight, ornTick.delta)) <= Milli

\* C12 - profile invariant: in every callback the profile the integrator used
\* for an ornament, of whichever of the six types, has a damping strictly
\* between 0 and 1 and a speed strictly above 0.
ProfileInvariant ==
  ornTick.n > 0 =>
     \A i \in DOMAIN ornTick.items :
        /\ ornaments[i].type \in {"bauble", "box", "star", "bell", "cane", "light"}
        /\ ornTick.items[i].damping > 0 /\ ornTick.items[i].damping < 100
        /\ ornTick.items[i].speed > 0

\* a callback integrated a light, the type with the damping closest to 1
LightIntegrated ==
  /\ ornTick.n > 0
  /\ \E i \in DOMAIN ornTick.items :
       ornaments[i].type = "light" /\ ornTick.items[i].damping = 95 /\ ornTick.items[i].speed = 60

\* C17 as stated - no pointer means no repulsion: in a callback that runs
\* while the pointer state is null (handPosition is null), no ornament gets a
\* repulsion velocity, wherever it is.
NoPointerNoRepulsion ==
  [][(handPosition = NullHand /\ ornTick'.n = ornTick.n + 1) =>
        \A i \in DOMAIN ornTick'.items : ornTick'.items[i].repulsion = Zero3]_vars

\* a step in which predictWebcam processed a detection without landmarks
NoLandmarksProcessed == videoIsNew /\ ~videoIsNew' /\ avgDist' = NoSample

\* C20 - pinch implies pointer: isPinching is true only while handPosition is
\* not null; a processed detection without landmarks sets handPosition to null
\* and isPinching to false in one step and leaves the mode as it was.
PinchImpliesPointer ==
  /\ [](isPinching => handPosition # NullHand)
  /\ [][NoLandmarksProcessed =>
          (handPosition' = NullHand /\ ~isPinching' /\ mode' = mode)]_vars

\* the hand was lost in chaos mode: the detection before saw a pinch, the
\* frame callback in between zoomed a frame, and the mode is still chaos
HandLostInChaos ==
  /\ mode = "chaos" /\ handPosition = NullHand /\ ~isPinching /\ avgDist = NoSample
  /\ ~videoIsNew
  /\ frame.ticked /\ frame.pinch /\ frame.mode = "chaos"

(***************************************************************************)
(* Properties of the effect of the App                                     *)
(***************************************************************************)
\* a step in which predictWebcam ran a detection
PredictionRan == videoIsNew /\ ~videoIsNew'

\* C16 as stated - teardown: once the cleanup of the effect has run, no
\* prediction tick is scheduled (no animation frame is requested) or executed
\* and the camera stream of video.srcObject is not live, whenever the cleanup
\* ran during the initialisation or the loop.
TeardownStopsPipeline ==
  /\ [](cleanedUp => (srcObject # "live" /\ visionPc # "predicting"))
  /\ [][cleanedUp => ~PredictionRan]_vars

(***************************************************************************)
(* Properties of the Foliage                                               *)
(***************************************************************************)
\* C14 as stated - progress stays in range: uProgress is within [0, 1] after
\* every sequence of frame callbacks and mode changes, and a callback leaves it
\* between the value it had and the endpoint of the mode (1 for formed, 0 for
\* chaos), the endpoint included.
ProgressStaysInRange ==
  /\ uProgress >= 0 /\ uProgress <= ProgressScale
  /\ foliageTick.n > 0 =>
        \/ (foliageTick.from <= uProgress /\ uProgress <= foliageTick.target)
        \/ (foliageTick.target <= uProgress /\ uProgress <= foliageTick.from)

(***************************************************************************)
(* Properties of the layouts                                               *)
(***************************************************************************)
\* C18 as stated - layout immutability: no step (a frame of the render loop,
\* a mode change, an update of the image list) changes the chaos or the target
\* coordinate of an ornament, or the chaos position or the tree coordinates
\* (which give the target position) of a frame.
LayoutImmutable ==
  [][ /\ \A i \in DOMAIN ornaments :
           /\ ornaments'[i].chaos = ornaments[i].chaos
           /\ ornaments'[i].target = ornaments[i].target
      /\ \A i \in Photos :
           /\ photos'[i].chaosPos = photos[i].chaosPos
           /\ photos'[i].treeY = photos[i].treeY
           /\ photos'[i].treeAngle = photos[i].treeAngle ]_vars

(***************************************************************************)
(* Properties of the start of the scene                                    *)
(***************************************************************************)
\* a zero or negative item count or radius
InvalidConfig(cfg) ==
  cfg.ornamentCount <= 0 \/ cfg.particleCount <= 0 \/ cfg.radius <= 0

\* C13 as stated - invalid configuration is rejected at startup: with a zero
\* or negative item count or radius in CONFIG no frame callback ever runs, of
\* Foliage, of Ornaments or of Polaroids.
InvalidConfigRejected ==
  InvalidConfig(config) => (foliageTick.n = 0 /\ ornTick.n = 0 /\ ~frame.ticked)

\* C15 as stated - empty population does not fault: with item counts of 0 the
\* list of ornaments is empty and no frame callback throws.
EmptyPopulationNoFault ==
  (config.ornamentCount = 0 /\ config.particleCount = 0) => (ornaments = << >> /\ ~fault)

(***************************************************************************)
(* Properties of the rotation of the ornaments                             *)
(***************************************************************************)
\* the angular rates of a type times a delta d, in thousandths of a radian:
\* delta * 0.5 (0.2 for a box) on x, delta on y, delta * 0.8 on z for a star;
\* delta * 0.5 on y alone for a cane
SpinAdvance(type, d) ==
  IF type = "cane" THEN <<0, d * 5, 0>>
  ELSE << d * (IF type = "box" THEN 2 ELSE 5), d * 10, IF type = "star" THEN d * 8 ELSE 0 >>

\* C19 as stated - per-item spin at a fixed rate: from one frame callback to
\* the next the rotation emitted for an ornament that is not a bell advances
\* by the angular rates of its type times the delta, whatever else is
\* processed and whatever renders in between; a cane has x and z at 0.2.
PerItemSpin ==
  [][(ornTick.n > 0 /\ ornTick'.n = ornTick.n + 1) =>
        \A i \in DOMAIN ornaments :
           ornaments[i].type # "bell" =>
              /\ ornTick'.items[i].rotation =
                    VecAdd(ornTick.items[i].rotation, SpinAdvance(ornaments[i].type, ornTick'.delta))
              /\ ornaments[i].type = "cane" =>
                    (ornTick'.items[i].rotation[1] = 200 /\ ornTick'.items[i].rotation[3] = 200)]_vars

(***************************************************************************)
(* Properties of the integrator under stalls                               *)
(***************************************************************************)
\* C21 as stated - integrator stays bounded: with a fixed destination and no
\* repulsion, whatever the frame deltas, the distance of an ornament to its
\* destination and the length of its velocity stay within a bound, here 100
\* times the distance it started at.
IntegratorStaysBounded ==
  \A i \in DOMAIN ornaments :
     /\ (ornTick.n > 0 => ornTick.items[i].repulsion = Zero3)
     /\ DistanceTo(ornaments[i].current, ornaments[i].target) <= 100 * StallStart
     /\ Length(ornaments[i].velocity) <= 100 * StallStart

====
